---- MODULE Spec2Model ----
(***************************************************************************)
(* ActivePlan.tsx: the popover of the plan being applied, with its cancel  *)
(* action.  The model covers the shared plan store (state, action), the    *)
(* `plan` prop, what one render of the component evaluates, the cancel()   *)
(* handler and the promise chain it attaches to apiCancelPlanApply.        *)
(*                                                                         *)
(* Granularity.  JavaScript runs one handler at a time, so each action is  *)
(* one whole handler: cancel() is one step, and the settlement of a        *)
(* request together with its .catch and .finally reactions is one step     *)
(* (the reactions are microtasks of the task that settles the promise, and *)
(* no click, no render and no other network event runs between them).      *)
(* The store notifies its subscribers on every set call, so the store      *)
(* contents after each single write of a handler are kept in `published`,  *)
(* and the calls a cancel() invocation makes are kept, in order, in        *)
(* `trace`.  The store is re-read and the component re-rendered after      *)
(* every store write and every prop change, so `view` is refreshed by the  *)
(* action that makes the change.                                           *)
(***************************************************************************)
EXTENDS Integers, Sequences, FiniteSets, TLC

\* Number of cancel() invocations explored.
MaxCancels == 2
\* Largest number of tasks of a plan explored.
MaxTasks == 1

Ids == 1..MaxCancels

\* EnumPlanState of ~/context/plan: the five members the component names,
\* the store's default, and a value outside the ones the component names.
PlanStates ==
  {"Idle", "Applying", "Cancelling", "Cancelled", "Finished", "Failed", "Unknown"}

\* EnumPlanAction of ~/context/plan, as far as the component uses it.
PlanActions == {"None", "Cancelling"}

\* EnumPlanApplyType of ~/context/plan.
PlanApplyTypes == {"Virtual", "Backfill"}

\* The `plan` prop when it is null or undefined (`plan == null`, line 54).
NullPlan == [present |-> FALSE, type |-> "Backfill", tasks |-> 0]

\* The values of the `plan` prop: absent, or a PlanProgress of either type
\* with 0..MaxTasks tasks.
Plans ==
  {NullPlan} \cup [present : {TRUE}, type : PlanApplyTypes, tasks : 0..MaxTasks]

VARIABLES
  state,        \* the store's state (useStorePlan(s => s.state))
  action,       \* the store's action
  plan,         \* the `plan` prop of the mounted component
  view,         \* what the latest render evaluated
  req,          \* per cancel() invocation: "none", "pending", "resolved", "rejected"
  trace,        \* per cancel() invocation: the calls it has made, in order
  published,    \* store contents after each write of the latest cancel()/settlement
  logged,       \* number of console.error calls
  unhandled     \* number of promise chains that ended rejected with no handler

vars ==
  <<state, action, plan, view, req, trace, published, logged, unhandled>>

----------------------------------------------------------------------------
(* The store's setters. *)

setState(store, v) == [store EXCEPT !.state = v]

setAction(store, v) == [store EXCEPT !.action = v]

----------------------------------------------------------------------------
(* getTriggerBgColor, lines 119-125. *)

getTriggerBgColor_swapped(planState) ==
  IF planState = "Finished" THEN "bg-success-500 text-light"
  ELSE IF planState = "Failed" THEN "bg-danger-500 text-light"
  ELSE IF planState = "Cancelling" THEN "bg-secondary-500 text-light"
  ELSE "bg-neutral-100 text-neutral-500"

getTriggerBgColor(planState) ==
  IF planState = "Finished" THEN "bg-success-500 text-light"
  ELSE IF planState = "Failed" THEN "bg-danger-500 text-light"
  ELSE IF planState = "Applying" THEN "bg-secondary-500 text-light"
  ELSE "bg-neutral-100 text-neutral-500"

----------------------------------------------------------------------------
(* One render of the component, lines 44-116.  The render prop of Popover  *)
(* builds the whole element tree, the panel's content included, whenever   *)
(* Popover renders: the expressions are evaluated in source order, and     *)
(* `plan.tasks` on line 67 throws a TypeError when plan is null or         *)
(* undefined, which ends the render before line 95 is reached.  What the   *)
(* application does with a render that threw is outside this file: the     *)
(* model records the failed render and lets the next store write or prop   *)
(* change render again.                                                    *)

\* Line 54.
triggerLabel(p) == IF ~p.present THEN 0 ELSE 1

\* Line 95.
CancelButtonRendered_whileCancelling(planState) ==
  planState \in {"Applying", "Cancelling"}

CancelButtonRendered(planState) == planState = "Applying"

Render(p, planState) ==
  IF p.present
  THEN [threw             |-> FALSE,
        bg                |-> getTriggerBgColor(planState),
        label             |-> triggerLabel(p),
        tasksOverview     |-> TRUE,
        tasks             |-> p.tasks,
        updateType        |-> IF p.type = "Virtual" THEN "Virtual" ELSE "Backfill",
        showBatches       |-> p.type # "Virtual",
        showVirtualUpdate |-> p.type = "Virtual",
        cancelButton      |-> CancelButtonRendered(planState)]
  ELSE [threw             |-> TRUE,
        bg                |-> getTriggerBgColor(planState),
        label             |-> triggerLabel(p),
        tasksOverview     |-> FALSE,
        tasks             |-> 0,
        updateType        |-> "",
        showBatches       |-> FALSE,
        showVirtualUpdate |-> FALSE,
        cancelButton      |-> FALSE]

----------------------------------------------------------------------------
(* cancel(), lines 32-42.  A call is a pair <<callee, argument>>. *)

\* Lines 33-36: the calls cancel() makes before it returns.
cancelSync_actionFirst ==
  << <<"setPlanAction", "Cancelling">>,
     <<"setPlanState", "Cancelling">>,
     <<"apiCancelPlanApply", "client">> >>

cancelSync_awaitsRequest ==
  << <<"apiCancelPlanApply", "client">> >>

cancelSync ==
  << <<"setPlanState", "Cancelling">>,
     <<"setPlanAction", "Cancelling">>,
     <<"apiCancelPlanApply", "client">> >>

\* Line 37, .catch(console.error): the promise it returns, given how the
\* request settled, and the calls its reaction makes.
onCatch_missing(outcome) ==
  [status |-> outcome, calls |-> <<>>]

onCatch(outcome) ==
  IF outcome = "rejected"
  THEN [status |-> "resolved", calls |-> << <<"console.error", "reason">> >>]
  ELSE [status |-> "resolved", calls |-> <<>>]

\* Lines 38-41: the callback given to .finally; it takes no argument and
\* does not read the store.
finallyCallback_stateFirst(store) ==
  << <<"setPlanState", "Cancelled">>, <<"setPlanAction", "None">> >>

finallyCallback_keepsAction(store) ==
  << <<"setPlanState", "Cancelled">> >>

finallyCallback_onlyIfCancelling(store) ==
  IF store.state = "Cancelling"
  THEN << <<"setPlanAction", "None">>, <<"setPlanState", "Cancelled">> >>
  ELSE <<>>

finallyCallback(store) ==
  << <<"setPlanAction", "None">>, <<"setPlanState", "Cancelled">> >>

\* Line 38, .finally(cb): cb runs however the promise before it settled, and
\* the promise .finally returns settles the way the one before it did.
onFinally(p, store) ==
  [status |-> p.status, calls |-> p.calls \o finallyCallback(store)]

\* The store after a sequence of calls, and its contents after each write.
RECURSIVE Run(_, _, _)
Run(store, calls, snaps) ==
  IF calls = <<>>
  THEN [store |-> store, snaps |-> snaps]
  ELSE LET c == Head(calls)
           next == IF c[1] = "setPlanState" THEN setState(store, c[2])
                   ELSE IF c[1] = "setPlanAction" THEN setAction(store, c[2])
                   ELSE store
           written == c[1] \in {"setPlanState", "setPlanAction"}
       IN Run(next, Tail(calls), IF written THEN Append(snaps, next) ELSE snaps)

Store == [state |-> state, action |-> action]

----------------------------------------------------------------------------

Init ==
  /\ state = "Idle"
  /\ action = "None"
  /\ plan \in Plans
  /\ view = Render(plan, state)
  /\ req = [i \in Ids |-> "none"]
  /\ trace = [i \in Ids |-> <<>>]
  /\ published = <<>>
  /\ logged = 0
  /\ unhandled = 0

\* The user clicks Cancel (lines 100-104): the button is in the rendered
\* tree, and the click runs cancel().
Cancel ==
  /\ view.cancelButton
  /\ \E i \in Ids :
       /\ req[i] = "none"
       /\ \A j \in Ids : j < i => req[j] # "none"
       /\ LET r == Run(Store, cancelSync, <<>>)
          IN /\ state' = r.store.state
             /\ action' = r.store.action
             /\ published' = r.snaps
             /\ req' = [req EXCEPT ![i] = "pending"]
             /\ trace' = [trace EXCEPT ![i] = cancelSync]
             /\ view' = Render(plan, r.store.state)
  /\ UNCHANGED <<plan, logged, unhandled>>

\* The request of invocation i settles (outcome: "resolved" or "rejected")
\* and the reactions of lines 37-41 run.
Settle(i, outcome) ==
  /\ req[i] = "pending"
  /\ LET p1 == onCatch(outcome)
         p2 == onFinally(p1, Store)
         r  == Run(Store, p2.calls, <<>>)
         errs == Len(SelectSeq(p2.calls, LAMBDA c : c[1] = "console.error"))
     IN /\ state' = r.store.state
        /\ action' = r.store.action
        /\ published' = r.snaps
        /\ req' = [req EXCEPT ![i] = outcome]
        /\ trace' = [trace EXCEPT ![i] = @ \o p2.calls]
        /\ logged' = logged + errs
        /\ unhandled' = unhandled + (IF p2.status = "rejected" THEN 1 ELSE 0)
        /\ view' = Render(plan, r.store.state)
  /\ UNCHANGED plan

\* Another part of the application writes the store's state (the plan's
\* progress events, the reset when a new plan begins).
StoreSetState(s) ==
  /\ state' = s
  /\ view' = Render(plan, s)
  /\ published' = <<>>
  /\ UNCHANGED <<action, plan, req, trace, logged, unhandled>>

\* The parent renders the component with another `plan` prop.
SetPlan(p) ==
  /\ plan' = p
  /\ view' = Render(p, state)
  /\ UNCHANGED <<state, action, req, trace, published, logged, unhandled>>

Next ==
  \/ Cancel
  \/ \E i \in Ids, outcome \in {"resolved", "rejected"} : Settle(i, outcome)
  \/ \E s \in PlanStates : StoreSetState(s)
  \/ \E p \in Plans : SetPlan(p)

Spec == Init /\ [][Next]_vars

\* Every request that was issued settles (the network layer's timeout ends
\* a request that gets no answer).
FairSpec ==
  Spec /\ \A i \in Ids : WF_vars(\E outcome \in {"resolved", "rejected"} : Settle(i, outcome))

----------------------------------------------------------------------------
(* Properties. *)

Dispatched(i) == req[i] = "none" /\ req'[i] = "pending"

Settled(i) == req[i] = "pending" /\ req'[i] # "pending"

StoreCalls(calls) == SelectSeq(calls, LAMBDA c : c[1] # "console.error")

Pending == {i \in Ids : req[i] = "pending"}

\* C1: the step in which cancel() issues its request is the step that leaves
\* the store at state = Cancelling and action = Cancelling, with the request
\* still pending; and a render with another prop, the only other thing the
\* component does before the request settles, leaves the store as it is.
C1_OptimisticWrites ==
  [][ /\ \A i \in Ids :
           Dispatched(i) => state' = "Cancelling" /\ action' = "Cancelling"
      /\ plan' # plan => state' = state /\ action' = action ]_vars

C1_Witness ==
  \E i \in Ids : req[i] = "pending" /\ state = "Cancelling" /\ action = "Cancelling"

\* C2: the step in which a request settles has run the continuation and
\* leaves the store at state = Cancelled and action = None; and, requests
\* settling eventually, every pending request leads to that store.
C2_SettlesToCancelled ==
  /\ [][ \A i \in Ids :
           Settled(i) => /\ Len(trace'[i]) > Len(trace[i])
                         /\ state' = "Cancelled"
                         /\ action' = "None" ]_vars
  /\ \A i \in Ids :
       (req[i] = "pending") ~>
         (req[i] \in {"resolved", "rejected"} /\ state = "Cancelled" /\ action = "None")

C2_Witness ==
  \E i \in Ids : req[i] = "resolved" /\ state = "Cancelled" /\ action = "None"

\* C3: a rejection is logged once by console.error, ends in no unhandled
\* rejection, writes no Failed state, and leaves the store where a
\* resolution leaves it (the store calls of the invocation are the same).
C3_RejectionIsSwallowed ==
  /\ [](unhandled = 0)
  /\ [][ \A i \in Ids :
           (req[i] = "pending" /\ req'[i] = "rejected") =>
             /\ logged' = logged + 1
             /\ state' = "Cancelled"
             /\ action' = "None"
             /\ StoreCalls(trace'[i]) =
                  << <<"setPlanState", "Cancelling">>,
                     <<"setPlanAction", "Cancelling">>,
                     <<"apiCancelPlanApply", "client">>,
                     <<"setPlanAction", "None">>,
                     <<"setPlanState", "Cancelled">> >>
             /\ \A k \in 1..Len(trace'[i]) : trace'[i][k][2] # "Failed" ]_vars

C3_Witness ==
  \E i \in Ids :
    /\ req[i] = "rejected"
    /\ logged >= 1
    /\ state = "Cancelled"
    /\ action = "None"

\* C4 as stated: in every state of the store, action = Cancelling implies
\* state = Cancelling.
C4_ActionImpliesState == action = "Cancelling" => state = "Cancelling"

\* C4 as amended: the store contents after each single write made by
\* cancel() or by its continuation have state = Cancelling whenever they
\* have action = Cancelling.
C4_OwnWritesKeepActionWithState ==
  \A k \in 1..Len(published) :
    published[k].action = "Cancelling" => published[k].state = "Cancelling"

C4_Witness ==
  /\ Len(published) = 2
  /\ published[1].action = "None"
  /\ published[2].action = "Cancelling"

\* C5: the latest render holds the Cancel button exactly when the store's
\* state is Applying.
C5_CancelButtonIffApplying == view.cancelButton <=> state = "Applying"

\* C6: the trigger's colour is the success token for Finished, the danger
\* token for Failed, the in-progress token for Applying and the neutral
\* token for every other state, and the four tokens differ.
C6_StatusColour ==
  /\ state = "Finished" => view.bg = "bg-success-500 text-light"
  /\ state = "Failed" => view.bg = "bg-danger-500 text-light"
  /\ state = "Applying" => view.bg = "bg-secondary-500 text-light"
  /\ state \notin {"Finished", "Failed", "Applying"} =>
       view.bg = "bg-neutral-100 text-neutral-500"
  /\ Cardinality({getTriggerBgColor(s) : s \in PlanStates}) = 4
  /\ \A s \in {"Idle", "Cancelling", "Cancelled", "Unknown"} :
       getTriggerBgColor(s) = "bg-neutral-100 text-neutral-500"

C6_Witness ==
  /\ state = "Cancelling"
  /\ view.bg = "bg-neutral-100 text-neutral-500"
  /\ \E i \in Ids : req[i] = "pending"

\* C7: every render succeeds and invokes TasksOverview, with label 0 for an
\* absent plan and label 1 for a present one, whatever its number of tasks.
C7_RenderSucceeds ==
  /\ ~view.threw
  /\ view.tasksOverview
  /\ view.label = (IF plan.present THEN 1 ELSE 0)

\* C8: the store writes and requests of an invocation are, in this order:
\* state := Cancelling, action := Cancelling, one request, and once the
\* request has settled, action := None, state := Cancelled; nothing more.
C8_EffectSequence ==
  \A i \in Ids :
    StoreCalls(trace[i]) =
      IF req[i] = "none" THEN <<>>
      ELSE IF req[i] = "pending"
      THEN << <<"setPlanState", "Cancelling">>,
              <<"setPlanAction", "Cancelling">>,
              <<"apiCancelPlanApply", "client">> >>
      ELSE << <<"setPlanState", "Cancelling">>,
              <<"setPlanAction", "Cancelling">>,
              <<"apiCancelPlanApply", "client">>,
              <<"setPlanAction", "None">>,
              <<"setPlanState", "Cancelled">> >>

C8_Witness ==
  \E i \in Ids : req[i] = "rejected" /\ Len(trace[i]) = 6

\* C9: whatever the store holds when a request settles, the step that
\* settles it writes action := None over that state, then state := Cancelled,
\* and so leaves state = Cancelled and action = None.
C9_SettlementIsUnconditional ==
  [][ \A s \in PlanStates, a \in PlanActions, i \in Ids :
        (state = s /\ action = a /\ Settled(i)) =>
          /\ published' = << [state |-> s, action |-> "None"],
                             [state |-> "Cancelled", action |-> "None"] >>
          /\ state' = "Cancelled"
          /\ action' = "None" ]_vars

C9_Witness ==
  /\ Len(published) = 2
  /\ published[1] = [state |-> "Finished", action |-> "None"]
  /\ state = "Cancelled"
  /\ action = "None"
  /\ \E i \in Ids : req[i] \in {"resolved", "rejected"}

\* C10 as stated: at most one request is pending at any time.
C10_AtMostOnePending == Cardinality(Pending) <= 1

\* C10 as amended: a request is issued only from a store whose state is
\* Applying, and the step that issues it moves the state out of Applying;
\* so a second request is issued while one is pending only after another
\* writer has put the state back to Applying.
C10_DispatchOnlyFromApplying ==
  [][ \A i \in Ids :
        Dispatched(i) => state = "Applying" /\ state' # "Applying" ]_vars

C10_Witness ==
  Cardinality(Pending) = 2

====
